---- MODULE Spec2Model ----
(***************************************************************************)
(* git-chronos (src/lib/index.js): the instance lock, the commit tracker,  *)
(* the scheduler tick with its commit burst, and the shutdown handler.     *)
(*                                                                         *)
(* A process is a Node.js event loop running two coroutines: the main      *)
(* IIFE (checkLock, createLock, initCommitTracker, scheduleNextRun/runBot) *)
(* and gracefulShutdown, started by SIGINT/SIGTERM.  Each action is the    *)
(* code between two awaits; process.exit ends both coroutines.             *)
(***************************************************************************)
EXTENDS Integers, Sequences, FiniteSets, TLC

\* ------------------------------------------------------------------ bounds
MaxCommitsArg == 2     \* --minCommits / --maxCommits range over 1..MaxCommitsArg
MaxDailyLimitArg == 2  \* --dailyLimit ranges over 1..MaxDailyLimitArg
MaxRetryArg == 2       \* --retryAttempts ranges over 1..MaxRetryArg
MaxDay == 1            \* calendar days 0..MaxDay
MaxRuns == 2           \* process starts (first start plus restarts) per instance
MaxSignals == 2        \* SIGINT/SIGTERM deliveries per process lifetime
MaxExecRetry == 3      \* --retryAttempts ranges over 1..MaxExecRetry in SpecExec
MaxStoredCount == 3    \* commitCount of a tracker file found at start: 0..MaxStoredCount

\* ------------------------------------------------------- program constants
DefaultScheduleStart == 9
DefaultScheduleEnd == 17
LongInterval == 3600000
ShortInterval == 300000
NoLock == 0            \* the lock file does not exist
EmptyLock == 0 - 1     \* the lock file exists and holds no text

Procs == {1, 2, 3}
Days == 0..MaxDay

\* Day 0 is a Friday, so that a weekend follows within the bound.
WeekdayNames == <<"Fri", "Sat", "Sun", "Mon", "Tue", "Wed", "Thu">>
Weekday(d) == WeekdayNames[(d % 7) + 1]

\* The clock readings the environment produces: the midnight hour, the first
\* hour of the working window, and the first hour after it.
ClockHours == {0, DefaultScheduleStart, DefaultScheduleEnd}

Min(a, b) == IF a < b THEN a ELSE b
Max(a, b) == IF a > b THEN a ELSE b

\* ----------------------------------------------------------- configuration
\* CONFIG as built at lines 124-142 from the numeric options.
MakeConfig(minCommits, maxCommits, dailyLimit, enableWeekends, retryAttempts) ==
    [ MIN_COMMITS     |-> Max(minCommits, 1),
      MAX_COMMITS     |-> Min(Max(maxCommits, 1), 100),
      DAILY_LIMIT     |-> Max(dailyLimit, 1),
      SCHEDULE_START  |-> DefaultScheduleStart,
      SCHEDULE_END    |-> DefaultScheduleEnd,
      ENABLE_WEEKENDS |-> enableWeekends,
      RETRY_ATTEMPTS  |-> retryAttempts ]

\* The start-up validation: a configuration that passes it is accepted.
ConfigAccepted(c) ==
    /\ ~(c.SCHEDULE_START < 0 \/ c.SCHEDULE_START > 23 \/ c.SCHEDULE_END < 0
         \/ c.SCHEDULE_END > 23 \/ c.SCHEDULE_START >= c.SCHEDULE_END)
    /\ ~(c.RETRY_ATTEMPTS < 1)
    /\ ~(c.MIN_COMMITS < 1 \/ c.MAX_COMMITS < c.MIN_COMMITS
         \/ c.DAILY_LIMIT < c.MIN_COMMITS)

Configs ==
    { c \in { MakeConfig(mn, mx, dl, we, ra) :
                mn \in 1..MaxCommitsArg, mx \in 1..MaxCommitsArg,
                dl \in 1..MaxDailyLimitArg, we \in BOOLEAN, ra \in 1..MaxRetryArg } :
        ConfigAccepted(c) }

VARIABLES
    CONFIG,          \* the accepted configuration
    day, hour,       \* the wall clock in the configured timezone
    lock,            \* content of LOCK_FILE: NoLock or a process identifier
    trackerFile,     \* content of COMMIT_TRACKER_FILE
    targetLines,     \* lines appended to TARGET_FILE
    commitsToday,    \* successful Executor calls on the current calendar day
    pid,             \* process identifier of each instance's current run
    pc,              \* position of the main coroutine
    sd,              \* position of gracefulShutdown
    isShuttingDown,  \* the one-shot flag
    signals,         \* signals delivered to the process
    cleanups,        \* times gracefulShutdown went past its guard
    exitAt,          \* the process.exit call that ended the process
    cache,           \* commitTrackerCache
    intended, remaining, planned, i, attempt,   \* locals of runBot
    execCalls,       \* Executor calls started in the current tick
    report,          \* what the current tick logged as its outcome
    nextRun,         \* delay of the pending scheduleNextRun timer
    git,             \* the repository as git sees it, and the git commands run by
                     \* the Executor call in progress
    sdData,          \* the text gracefulShutdown's saveCommitTracker handed to writeFile
    input            \* what the user supplied: command line, environment, answers

procVars == <<pid, pc, sd, isShuttingDown, signals, cleanups, exitAt, cache>>
tickVars == <<intended, remaining, planned, i, attempt, execCalls, report, nextRun>>
fileVars == <<lock, trackerFile, targetLines, commitsToday>>
ioVars == <<git, sdData, input>>
vars == <<CONFIG, day, hour, fileVars, procVars, tickVars, ioVars>>

\* ----------------------------------------------------------------- tracker
Record(count, date) == [kind |-> "record", commitCount |-> count, lastRunDate |-> date]
Absent == [kind |-> "absent", commitCount |-> 0, lastRunDate |-> 0]
\* text that JSON.parse rejects: garbage, a truncated record, the empty file
Unparsable == [kind |-> "unparsable", commitCount |-> 0, lastRunDate |-> 0]
\* the text "null": valid JSON that is no record
NullFile == [kind |-> "null", commitCount |-> 0, lastRunDate |-> 0]
\* the value null, which has no properties
JsNull == [null |-> TRUE]

\* commitTrackerCache as initialised at module load: { commitCount: 0, lastRunDate: now }
DefaultCache == [commitCount |-> 0, lastRunDate |-> day]

\* JSON.stringify(commitTrackerCache) written over the file
Stringify(c) == IF c = JsNull THEN NullFile ELSE Record(c.commitCount, c.lastRunDate)
\* JSON.parse of the file's content, where it parses
Parsable(f) == f.kind \in {"record", "null"}
Parse(f) ==
    IF f.kind = "null" THEN JsNull
    ELSE [commitCount |-> f.commitCount, lastRunDate |-> f.lastRunDate]

\* a rollover that moves the date and keeps the count
RolledCacheKeepsCount(c) ==
    IF c.lastRunDate # day THEN [commitCount |-> c.commitCount, lastRunDate |-> day] ELSE c

\* getDailyCommitCount: the cache after the call (rollover applied)
RolledCache(c) ==
    IF c.lastRunDate # day THEN [commitCount |-> 0, lastRunDate |-> day] ELSE c
getDailyCommitCount(c) == RolledCache(c).commitCount
\* a quota check that always lets the tick go on
shouldCommitTodayAlways(c) == TRUE
shouldCommitToday(c) == getDailyCommitCount(c) < CONFIG.DAILY_LIMIT

\* -------------------------------------------------------------- repository
\* The work tree of REPO_DIR.  hasOrigin: `git remote` lists origin.
\* logTracked: LOG_FILE lies inside the work tree and is not ignored (its
\* default is <repo>/bot_runtime.log), so every logged line is a change that
\* `git add .` stages.  committedLines: lines of TARGET_FILE contained in HEAD.
\* adds, commitRuns, pushes, sleeps: the commands and retry sleeps of the
\* performGitOperations call in progress.
\* failedAt: the command whose error left performGitOperations.
\* error: whether the message of the last error matches a transient pattern.
Repository(hasOrigin, logTracked) ==
    [ hasOrigin |-> hasOrigin, logTracked |-> logTracked, committedLines |-> 0,
      adds |-> 0, commitRuns |-> 0, pushes |-> 0, sleeps |-> 0, failedAt |-> "none",
      error |-> "none" ]

\* ------------------------------------------------------------ time policy
\* toLocaleTimeString('en-US', {hour12: false}) renders the midnight hour as
\* "00" or as "24", depending on the ICU data of the runtime.
LocaleHours(h) == IF h = 0 THEN {0, 24} ELSE {h}
isWeekendDay == Weekday(day) \in {"Sat", "Sun"}
isWeekend == IF CONFIG.ENABLE_WEEKENDS THEN FALSE ELSE isWeekendDay
\* the window read as closed at its end
isWorkingHoursInclusive(currentHour) ==
    currentHour >= CONFIG.SCHEDULE_START /\ currentHour <= CONFIG.SCHEDULE_END
isWorkingHours(currentHour) ==
    currentHour >= CONFIG.SCHEDULE_START /\ currentHour < CONFIG.SCHEDULE_END

\* ----------------------------------------------------------------- process
Alive(p) == pc[p] \notin {"exited", "absent"}
\* process.kill(pid, 0) succeeds: some live process has that identifier, or
\* the text read from the lock file is empty, which process.kill takes as
\* pid 0, the caller's own process group
ProbeAlive(id) == id = EmptyLock \/ \E q \in Procs : pid[q] = id /\ Alive(q)

\* exit status of each process.exit call
ExitStatus(site) == IF site \in {"shutdown", "interactiveAbort"} THEN 0 ELSE 1

ResetTick(p) ==
    /\ intended' = [intended EXCEPT ![p] = 0]
    /\ remaining' = [remaining EXCEPT ![p] = 0]
    /\ planned' = [planned EXCEPT ![p] = 0]
    /\ i' = [i EXCEPT ![p] = 0]
    /\ attempt' = [attempt EXCEPT ![p] = 0]
    /\ execCalls' = [execCalls EXCEPT ![p] = 0]
    /\ report' = [report EXCEPT ![p] = "none"]

\* process.exit at the named call: both coroutines end, the memory is gone
Exit(p, site) ==
    /\ pc' = [pc EXCEPT ![p] = "exited"]
    /\ exitAt' = [exitAt EXCEPT ![p] = site]
    /\ nextRun' = [nextRun EXCEPT ![p] = 0]
    /\ ResetTick(p)

\* ------------------------------------------------------ configuration loading
\* An option as the user typed it: not given, a number, or text that is no number.
NotGiven == [kind |-> "none", n |-> 0]
Typed(n) == [kind |-> "num", n |-> n]
NotANumber == [kind |-> "text", n |-> 0]

NumericOptions ==
    {"minCommits", "maxCommits", "dailyLimit", "commitDelayMin", "commitDelayMax",
     "scheduleStart", "scheduleEnd", "retryAttempts", "retryDelay"}

\* the literal defaults at the end of each || chain
Defaults ==
    [ minCommits |-> 1, maxCommits |-> 10, dailyLimit |-> 15,
      commitDelayMin |-> 1000, commitDelayMax |-> 5000,
      scheduleStart |-> DefaultScheduleStart, scheduleEnd |-> DefaultScheduleEnd,
      retryAttempts |-> 3, retryDelay |-> 5000 ]

\* Number(raw) || fallback: undefined and text give NaN, and NaN and 0 are falsy
NumberOr(raw, fallback) == IF raw.kind = "num" /\ raw.n # 0 THEN raw.n ELSE fallback

NoOptions == [o \in NumericOptions |-> NotGiven]

\* the nine numeric constants: command line, then environment, then default
ParsedArgs(argv, env) ==
    [o \in NumericOptions |-> NumberOr(argv[o], NumberOr(env[o], Defaults[o]))]

\* process.argv.slice(2).length > 0, for the options the model knows
hasCLIArgs(argv) == argv.enableWeekends \/ \E o \in NumericOptions : argv[o] # NotGiven

\* CONFIG with every numeric field of lines 124-142
BuildConfig(n, enableWeekends) ==
    [ MakeConfig(n.minCommits, n.maxCommits, n.dailyLimit, enableWeekends, n.retryAttempts)
        EXCEPT !.SCHEDULE_START = n.scheduleStart, !.SCHEDULE_END = n.scheduleEnd ]
    @@ [ COMMIT_DELAY_MIN |-> n.commitDelayMin, COMMIT_DELAY_MAX |-> n.commitDelayMax,
         RETRY_DELAY |-> n.retryDelay ]

\* the command line that yields configuration c
CommandLine(c) ==
    [ argv |-> [ NoOptions EXCEPT !.minCommits = Typed(c.MIN_COMMITS),
                                  !.maxCommits = Typed(c.MAX_COMMITS),
                                  !.dailyLimit = Typed(c.DAILY_LIMIT),
                                  !.retryAttempts = Typed(c.RETRY_ATTEMPTS) ]
                @@ [enableWeekends |-> c.ENABLE_WEEKENDS],
      env |-> NoOptions,
      answers |-> NoOptions @@ [enableWeekends |-> FALSE],
      asked |-> FALSE ]

\* The validation run while the module loads: the checks on the parsed constants,
\* then the check on CONFIG; the first failing one exits with status 1.
LoadModule(p) ==
    /\ pc[p] = "load"
    /\ LET n == ParsedArgs(input.argv, input.env)
       IN  IF ~ConfigAccepted(CONFIG) \/ n.retryDelay < 0
           THEN Exit(p, "config")
           ELSE /\ pc' = [pc EXCEPT ![p] =
                            IF hasCLIArgs(input.argv) THEN "checkLock" ELSE "interactive"]
                /\ UNCHANGED <<exitAt, tickVars>>
    /\ UNCHANGED <<CONFIG, ioVars, day, hour, fileVars,
                   pid, sd, isShuttingDown, signals, cleanups, cache>>

\* Object.assign(CONFIG, ...) with the answers of the interactive menu
AssignAnswers(c, a) ==
    [ c EXCEPT !.MIN_COMMITS = NumberOr(a.minCommits, c.MIN_COMMITS),
               !.MAX_COMMITS = NumberOr(a.maxCommits, c.MAX_COMMITS),
               !.DAILY_LIMIT = NumberOr(a.dailyLimit, c.DAILY_LIMIT),
               !.SCHEDULE_START = NumberOr(a.scheduleStart, c.SCHEDULE_START),
               !.SCHEDULE_END = NumberOr(a.scheduleEnd, c.SCHEDULE_END),
               !.ENABLE_WEEKENDS = a.enableWeekends,
               !.COMMIT_DELAY_MIN = NumberOr(a.commitDelayMin, c.COMMIT_DELAY_MIN),
               !.COMMIT_DELAY_MAX = NumberOr(a.commitDelayMax, c.COMMIT_DELAY_MAX),
               !.RETRY_ATTEMPTS = NumberOr(a.retryAttempts, c.RETRY_ATTEMPTS),
               !.RETRY_DELAY = NumberOr(a.retryDelay, c.RETRY_DELAY) ]

\* the checks of the interactive branch
InteractiveAccepted(c) ==
    /\ ~(c.SCHEDULE_START < 0 \/ c.SCHEDULE_START > 23 \/ c.SCHEDULE_END < 0
         \/ c.SCHEDULE_END > 23 \/ c.SCHEDULE_START >= c.SCHEDULE_END)
    /\ ~(c.COMMIT_DELAY_MIN < 0 \/ c.COMMIT_DELAY_MAX < c.COMMIT_DELAY_MIN)
    /\ ~(c.DAILY_LIMIT < 1 \/ c.MIN_COMMITS > c.DAILY_LIMIT \/ c.DAILY_LIMIT < c.MAX_COMMITS)
    /\ ~(c.RETRY_ATTEMPTS < 1)
    /\ ~(c.RETRY_DELAY < 0)

\* the answers the menu can hand back
Answers ==
    { NoOptions @@ [enableWeekends |-> we] : we \in BOOLEAN }
    \cup { [NoOptions EXCEPT !.minCommits = mn, !.maxCommits = mx, !.dailyLimit = dl]
             @@ [enableWeekends |-> FALSE] :
             mn \in {NotGiven, Typed(0 - 1), Typed(2)},
             mx \in {NotGiven, Typed(1)},
             dl \in {NotGiven, Typed(1)} }

\* The interactive branch of the main function: the menu returns answers, which are
\* merged into CONFIG and validated, or it throws and the catch exits with status 0.
Interactive(p) ==
    /\ pc[p] = "interactive"
    /\ \/ /\ Exit(p, "interactiveAbort")
          /\ UNCHANGED <<CONFIG, input>>
       \/ \E a \in Answers :
            /\ input' = [input EXCEPT !.answers = a, !.asked = TRUE]
            /\ CONFIG' = AssignAnswers(CONFIG, a)
            /\ IF InteractiveAccepted(CONFIG')
               THEN /\ pc' = [pc EXCEPT ![p] = "checkLock"]
                    /\ UNCHANGED <<exitAt, tickVars>>
               ELSE Exit(p, "interactive")
    /\ UNCHANGED <<git, sdData, day, hour, fileVars,
                   pid, sd, isShuttingDown, signals, cleanups, cache>>


\* ------------------------------------------------------------------ start-up
\* checkLock without the liveness probe: every marker counts as a live owner
CheckLockReadNoProbe(p) ==
    /\ pc[p] = "checkLock"
    /\ pc' = [pc EXCEPT ![p] = IF lock = NoLock THEN "createLock" ELSE "conflict"]
    /\ UNCHANGED <<CONFIG, ioVars, day, hour, fileVars, tickVars,
                   pid, sd, isShuttingDown, signals, cleanups, exitAt, cache>>

\* checkLock, up to the liveness probe: readFile of the lock file, then process.kill(pid, 0)
CheckLockRead(p) ==
    /\ pc[p] = "checkLock"
    /\ pc' = [pc EXCEPT ![p] =
                IF lock = NoLock THEN "createLock"
                ELSE IF ProbeAlive(lock) THEN "conflict"
                ELSE "unlinkStale"]
    /\ UNCHANGED <<CONFIG, ioVars, day, hour, fileVars, tickVars,
                   pid, sd, isShuttingDown, signals, cleanups, exitAt, cache>>

\* checkLock, the live-owner branch after its logError: process.exit(1)
CheckLockConflict(p) ==
    /\ pc[p] = "conflict"
    /\ Exit(p, "checkLock")
    /\ UNCHANGED <<CONFIG, ioVars, day, hour, fileVars,
                   pid, sd, isShuttingDown, signals, cleanups, cache>>

\* checkLock, the stale branch: unlink of the lock file (an unlink that fails
\* because the file is gone is swallowed by the outer catch)
CheckLockUnlink(p) ==
    /\ pc[p] = "unlinkStale"
    /\ lock' = NoLock
    /\ pc' = [pc EXCEPT ![p] = "createLock"]
    /\ UNCHANGED <<CONFIG, ioVars, day, hour, trackerFile, targetLines, commitsToday, tickVars,
                   pid, sd, isShuttingDown, signals, cleanups, exitAt, cache>>

\* createLock: writeFile(LOCK_FILE, process.pid); a failed write is fatal
CreateLock(p) ==
    /\ pc[p] = "createLock"
    /\ \E ok \in BOOLEAN :
         IF ok
         THEN /\ lock' = pid[p]
              /\ pc' = [pc EXCEPT ![p] = "initStat"]
         ELSE /\ lock' = lock
              /\ pc' = [pc EXCEPT ![p] = "lockFail"]
    /\ UNCHANGED <<CONFIG, ioVars, day, hour, trackerFile, targetLines, commitsToday, tickVars,
                   pid, sd, isShuttingDown, signals, cleanups, exitAt, cache>>

\* The same write step by step (SpecLock).  writeFile opens the lock file with
\* the flag 'w', which creates or empties it, and writes the pid in a later
\* turn of the event loop; a failure of either step is fatal.
CreateLockOpen(p) ==
    /\ pc[p] = "createLock"
    /\ \E ok \in BOOLEAN :
         IF ok
         THEN /\ lock' = EmptyLock
              /\ pc' = [pc EXCEPT ![p] = "createLockWrite"]
         ELSE /\ lock' = lock
              /\ pc' = [pc EXCEPT ![p] = "lockFail"]
    /\ UNCHANGED <<CONFIG, ioVars, day, hour, trackerFile, targetLines, commitsToday, tickVars,
                   pid, sd, isShuttingDown, signals, cleanups, exitAt, cache>>

CreateLockWrite(p) ==
    /\ pc[p] = "createLockWrite"
    /\ \E ok \in BOOLEAN :
         IF ok
         THEN /\ lock' = pid[p]
              /\ pc' = [pc EXCEPT ![p] = "initStat"]
         ELSE /\ lock' = lock
              /\ pc' = [pc EXCEPT ![p] = "lockFail"]
    /\ UNCHANGED <<CONFIG, ioVars, day, hour, trackerFile, targetLines, commitsToday, tickVars,
                   pid, sd, isShuttingDown, signals, cleanups, exitAt, cache>>

CreateLockFail(p) ==
    /\ pc[p] = "lockFail"
    /\ Exit(p, "createLock")
    /\ UNCHANGED <<CONFIG, ioVars, day, hour, fileVars,
                   pid, sd, isShuttingDown, signals, cleanups, cache>>

\* initCommitTracker: stat of the tracker file
InitStat(p) ==
    /\ pc[p] = "initStat"
    /\ pc' = [pc EXCEPT ![p] = IF trackerFile.kind = "absent" THEN "initWrite" ELSE "initRead"]
    /\ UNCHANGED <<CONFIG, ioVars, day, hour, fileVars, tickVars,
                   pid, sd, isShuttingDown, signals, cleanups, exitAt, cache>>

\* initCommitTracker, file missing: write the cache as it is
InitWrite(p) ==
    /\ pc[p] = "initWrite"
    /\ trackerFile' = Stringify(cache[p])
    /\ pc' = [pc EXCEPT ![p] = "schedule"]
    /\ UNCHANGED <<CONFIG, ioVars, day, hour, lock, targetLines, commitsToday, tickVars,
                   pid, sd, isShuttingDown, signals, cleanups, exitAt, cache>>

\* initCommitTracker, file present: read and parse it into the cache, whatever
\* value it parses to; a file deleted since the stat, or one that does not
\* parse, takes the catch branch, which resets the cache and writes it
InitRead(p) ==
    /\ pc[p] = "initRead"
    /\ IF Parsable(trackerFile)
       THEN /\ cache' = [cache EXCEPT ![p] = Parse(trackerFile)]
            /\ trackerFile' = trackerFile
       ELSE /\ cache' = [cache EXCEPT ![p] = DefaultCache]
            /\ trackerFile' = Stringify(DefaultCache)
    /\ pc' = [pc EXCEPT ![p] = "schedule"]
    /\ UNCHANGED <<CONFIG, ioVars, day, hour, lock, targetLines, commitsToday, tickVars,
                   pid, sd, isShuttingDown, signals, cleanups, exitAt>>

\* ------------------------------------------------------------------ shutdown
\* gracefulShutdown with the flag not yet set when the handler yields
gracefulShutdownLateFlag(p) ==
    IF isShuttingDown[p]
    THEN UNCHANGED <<sd, isShuttingDown, cleanups>>
    ELSE /\ isShuttingDown' = isShuttingDown
         /\ cleanups' = [cleanups EXCEPT ![p] = @ + 1]
         /\ sd' = [sd EXCEPT ![p] = "save"]

\* gracefulShutdown up to its first await: the guard and the one-shot flag
gracefulShutdown(p) ==
    IF isShuttingDown[p]
    THEN UNCHANGED <<sd, isShuttingDown, cleanups>>
    ELSE /\ isShuttingDown' = [isShuttingDown EXCEPT ![p] = TRUE]
         /\ cleanups' = [cleanups EXCEPT ![p] = @ + 1]
         /\ sd' = [sd EXCEPT ![p] = "save"]

\* SIGINT or SIGTERM is delivered: the handler runs at the next turn of the loop
Signal(p) ==
    /\ Alive(p)
    /\ signals[p] < MaxSignals
    /\ signals' = [signals EXCEPT ![p] = @ + 1]
    /\ gracefulShutdown(p)
    /\ UNCHANGED <<CONFIG, ioVars, day, hour, fileVars, tickVars, pid, pc, exitAt, cache>>

\* gracefulShutdown: saveCommitTracker, its write taken as one step; when it
\* throws, removeLock is skipped
ShutdownSave(p) ==
    /\ Alive(p)
    /\ sd[p] = "save"
    /\ \E ok \in BOOLEAN :
         IF ok
         THEN /\ trackerFile' = Stringify(cache[p])
              /\ sd' = [sd EXCEPT ![p] = "remove"]
         ELSE /\ trackerFile' = trackerFile
              /\ sd' = [sd EXCEPT ![p] = "exit"]
    /\ UNCHANGED <<CONFIG, ioVars, day, hour, lock, targetLines, commitsToday, tickVars,
                   pid, pc, isShuttingDown, signals, cleanups, exitAt, cache>>

\* unlink of the lock file by its path: a missing file is an error
unlinkAsync(file) ==
    [file |-> NoLock, error |-> IF file = NoLock THEN "ENOENT" ELSE "none"]

\* removeLock that lets the error of unlink reach its caller
removeLockRethrows(file) ==
    [file |-> unlinkAsync(file).file, thrown |-> unlinkAsync(file).error]

\* removeLock: the unlink inside try, the error logged in catch and dropped
removeLock(file) ==
    [file |-> unlinkAsync(file).file, thrown |-> "none"]

\* gracefulShutdown: removeLock, then the finally block; an error thrown by
\* removeLock would be logged by the catch block on the way
ShutdownRemoveLock(p) ==
    /\ Alive(p)
    /\ sd[p] = "remove"
    /\ lock' = removeLock(lock).file
    /\ sd' = [sd EXCEPT ![p] = "exit"]
    /\ UNCHANGED <<CONFIG, ioVars, day, hour, trackerFile, targetLines, commitsToday, tickVars,
                   pid, pc, isShuttingDown, signals, cleanups, exitAt, cache>>

\* gracefulShutdown, the finally block: process.exit(0)
ShutdownExit(p) ==
    /\ Alive(p)
    /\ sd[p] = "exit"
    /\ Exit(p, "shutdown")
    /\ UNCHANGED <<CONFIG, ioVars, day, hour, fileVars,
                   pid, sd, isShuttingDown, signals, cleanups, cache>>

\* ----------------------------------------------------------------- scheduler
\* scheduleNextRun, entered from the main IIFE or from the timer: runBot is
\* started only while the process is not shutting down
ScheduleNextRun(p) ==
    /\ pc[p] = "schedule"
    /\ pc' = [pc EXCEPT ![p] = IF isShuttingDown[p] THEN "idle" ELSE "health"]
    /\ nextRun' = [nextRun EXCEPT ![p] = 0]
    /\ UNCHANGED <<CONFIG, ioVars, day, hour, fileVars,
                   intended, remaining, planned, i, attempt, execCalls, report,
                   pid, sd, isShuttingDown, signals, cleanups, exitAt, cache>>

\* The skip decision of runBot, taken in one turn after the health check:
\* weekend, then working hours, then the daily limit (whose read rolls the
\* cache over).  currentHour is the hour as isWorkingHours parsed it.
\* The decision with the daily limit checked first:
SkipReasonQuotaFirst(p, currentHour) ==
    IF ~shouldCommitToday(cache[p]) THEN "quota"
    ELSE IF ~CONFIG.ENABLE_WEEKENDS /\ isWeekend THEN "weekend"
    ELSE IF ~isWorkingHours(currentHour) THEN "off-hours"
    ELSE "none"

\* the three checks in the order of the code
SkipReason(p, currentHour) ==
    IF ~CONFIG.ENABLE_WEEKENDS /\ isWeekend THEN "weekend"
    ELSE IF ~isWorkingHours(currentHour) THEN "off-hours"
    ELSE IF ~shouldCommitToday(cache[p]) THEN "quota"
    ELSE "none"

\* shouldCommitToday is reached with a cache that is null: the read of
\* commitTrackerCache.lastRunDate throws a TypeError inside runBot's try
QuotaReadThrows(p, currentHour) ==
    /\ cache[p] = JsNull
    /\ ~(~CONFIG.ENABLE_WEEKENDS /\ isWeekend)
    /\ isWorkingHours(currentHour)

\* runBot: performHealthCheck, then the skip decision
HealthCheck(p) ==
    /\ pc[p] = "health"
    /\ \E healthy \in BOOLEAN, currentHour \in LocaleHours(hour) :
         IF ~healthy
         THEN /\ pc' = [pc EXCEPT ![p] = "healthFail"]
              /\ UNCHANGED <<report, cache>>
         ELSE IF QuotaReadThrows(p, currentHour)
         THEN /\ pc' = [pc EXCEPT ![p] = "catchQuota"]
              /\ UNCHANGED <<report, cache>>
         ELSE LET reason == SkipReason(p, currentHour) IN
              /\ report' = [report EXCEPT ![p] = reason]
              /\ cache' = [cache EXCEPT ![p] =
                             IF reason \in {"quota", "none"} THEN RolledCache(@) ELSE @]
              /\ pc' = [pc EXCEPT ![p] = IF reason = "none" THEN "chdir" ELSE "tickReturn"]
    /\ UNCHANGED <<CONFIG, ioVars, day, hour, fileVars,
                   intended, remaining, planned, i, attempt, execCalls, nextRun,
                   pid, sd, isShuttingDown, signals, cleanups, exitAt>>

\* a failed health check that only ends the tick
HealthCheckFailReturns(p) ==
    /\ pc[p] = "healthFail"
    /\ pc' = [pc EXCEPT ![p] = "tickReturn"]
    /\ UNCHANGED <<CONFIG, ioVars, day, hour, fileVars, tickVars,
                   pid, sd, isShuttingDown, signals, cleanups, exitAt, cache>>

\* runBot: a failed health check, after its logError: process.exit(1)
HealthCheckFail(p) ==
    /\ pc[p] = "healthFail"
    /\ Exit(p, "healthCheck")
    /\ UNCHANGED <<CONFIG, ioVars, day, hour, fileVars,
                   pid, sd, isShuttingDown, signals, cleanups, cache>>

\* getRandomCommitCount: any value of MIN_COMMITS..MAX_COMMITS
RandomCommitCounts == CONFIG.MIN_COMMITS..CONFIG.MAX_COMMITS

\* the burst not capped by the remaining quota
PlannedCommitsUncapped(intendedCommits, remainingCommits) == intendedCommits

\* the number of iterations of the commit loop
PlannedCommits(intendedCommits, remainingCommits) == Min(intendedCommits, remainingCommits)

\* a report decided by the size of the burst alone
BurstReportByPlan(intendedCommits, plannedCommits, c) ==
    IF intendedCommits > plannedCommits THEN "early" ELSE "all"

\* what runBot logs after the loop: "early" when the burst was capped and the
\* limit is reached (this read of the daily count rolls the cache over)
BurstReport(intendedCommits, plannedCommits, c) ==
    IF intendedCommits > plannedCommits /\ getDailyCommitCount(c) >= CONFIG.DAILY_LIMIT
    THEN "early" ELSE "all"
BurstCache(intendedCommits, plannedCommits, c) ==
    IF intendedCommits > plannedCommits THEN RolledCache(c) ELSE c

\* runBot: changeDirectory, then the size of the burst
PlanBurst(p) ==
    /\ pc[p] = "chdir"
    /\ \E ok \in BOOLEAN, n \in RandomCommitCounts :
         IF ~ok
         THEN /\ pc' = [pc EXCEPT ![p] = "catchChdir"]
              /\ UNCHANGED <<cache, intended, remaining, planned, i, report>>
         ELSE LET rolled == RolledCache(cache[p])
                  rem == CONFIG.DAILY_LIMIT - getDailyCommitCount(cache[p])
                  pl == PlannedCommits(n, rem) IN
              /\ remaining' = [remaining EXCEPT ![p] = rem]
              /\ intended' = [intended EXCEPT ![p] = n]
              /\ planned' = [planned EXCEPT ![p] = pl]
              /\ i' = [i EXCEPT ![p] = 0]
              /\ IF 0 < pl
                 THEN /\ pc' = [pc EXCEPT ![p] = "modify"]
                      /\ cache' = [cache EXCEPT ![p] = rolled]
                      /\ report' = report
                 ELSE /\ pc' = [pc EXCEPT ![p] = "tickReturn"]
                      /\ cache' = [cache EXCEPT ![p] = BurstCache(n, pl, rolled)]
                      /\ report' = [report EXCEPT ![p] = BurstReport(n, pl, rolled)]
    /\ UNCHANGED <<CONFIG, ioVars, day, hour, fileVars, attempt, execCalls, nextRun,
                   pid, sd, isShuttingDown, signals, cleanups, exitAt>>

\* modifyFile: append one line to the target file; an error is rethrown
ModifyFile(p) ==
    /\ pc[p] = "modify"
    /\ execCalls' = [execCalls EXCEPT ![p] = @ + 1]
    /\ \E ok \in BOOLEAN :
         IF ok
         THEN /\ targetLines' = targetLines + 1
              /\ attempt' = [attempt EXCEPT ![p] = 1]
              /\ pc' = [pc EXCEPT ![p] = "git"]
         ELSE /\ UNCHANGED <<targetLines, attempt>>
              /\ pc' = [pc EXCEPT ![p] = "catchExec"]
    /\ UNCHANGED <<CONFIG, ioVars, day, hour, lock, trackerFile, commitsToday,
                   intended, remaining, planned, i, report, nextRun,
                   pid, sd, isShuttingDown, signals, cleanups, exitAt, cache>>

\* performGitOperations: one attempt of add, commit, push, taken as one step
\* in a repository with a remote.  A transient error before the last attempt
\* sleeps RETRY_DELAY and tries again; any other error is rethrown.
GitAttempt(p) ==
    /\ pc[p] = "git"
    /\ \E outcome \in {"ok", "transient", "permanent"} :
         IF outcome = "ok"
         THEN /\ commitsToday' = commitsToday + 1
              /\ attempt' = attempt
              /\ pc' = [pc EXCEPT ![p] = "update"]
         ELSE IF outcome = "transient" /\ attempt[p] < CONFIG.RETRY_ATTEMPTS
         THEN /\ attempt' = [attempt EXCEPT ![p] = @ + 1]
              /\ UNCHANGED <<commitsToday, pc>>
         ELSE /\ pc' = [pc EXCEPT ![p] = "catchExec"]
              /\ UNCHANGED <<commitsToday, attempt>>
    /\ UNCHANGED <<CONFIG, ioVars, day, hour, lock, trackerFile, targetLines,
                   intended, remaining, planned, i, execCalls, report, nextRun,
                   pid, sd, isShuttingDown, signals, cleanups, exitAt, cache>>

\* The same loop command by command (SpecExec).  The catch of an attempt:
\* an error whose message matches a transient pattern, before the last
\* attempt, leads to the retry sleep; every other error is rethrown.
\* A catch that retries whatever the message:
GitCatchRetriesAny(p, transient) ==
    IF attempt[p] < CONFIG.RETRY_ATTEMPTS THEN "retrySleep" ELSE "catchExec"

\* the catch block of the retry loop
GitCatch(p, transient) ==
    IF transient /\ attempt[p] < CONFIG.RETRY_ATTEMPTS THEN "retrySleep" ELSE "catchExec"

\* performGitOperations: `git add .` of the current attempt
GitAdd(p) ==
    /\ pc[p] = "git"
    /\ \E outcome \in {"ok", "transient", "permanent"} :
         /\ pc' = [pc EXCEPT ![p] = IF outcome = "ok" THEN "gitCommit"
                                    ELSE GitCatch(p, outcome = "transient")]
         /\ git' = IF attempt[p] = 1
                   THEN [git EXCEPT !.adds = 1, !.commitRuns = 0, !.pushes = 0, !.sleeps = 0,
                                    !.failedAt = IF outcome = "ok" THEN "none" ELSE "add",
                                    !.error = IF outcome = "ok" THEN "none" ELSE outcome]
                   ELSE [git EXCEPT !.adds = @ + 1,
                                    !.failedAt = IF outcome = "ok" THEN "none" ELSE "add",
                                    !.error = IF outcome = "ok" THEN "none" ELSE outcome]
    /\ UNCHANGED <<CONFIG, sdData, input, day, hour, fileVars, tickVars,
                   pid, sd, isShuttingDown, signals, cleanups, exitAt, cache>>

\* something is staged: a line of the target file that HEAD lacks, or log
\* lines when the log file is part of the work tree
Staged == targetLines > git.committedLines \/ git.logTracked

\* performGitOperations: `git commit -m ...`; with nothing staged git exits
\* with code 1.  The error is always "git commit failed with code N" (or the
\* spawn error), which matches no transient pattern.
GitCommit(p) ==
    /\ pc[p] = "gitCommit"
    /\ \E ok \in BOOLEAN :
         IF ok /\ Staged
         THEN /\ git' = [git EXCEPT !.commitRuns = @ + 1, !.committedLines = targetLines]
              /\ pc' = [pc EXCEPT ![p] = "gitPush"]
         ELSE /\ git' = [git EXCEPT !.commitRuns = @ + 1, !.failedAt = "commit",
                                    !.error = "permanent"]
              /\ pc' = [pc EXCEPT ![p] = GitCatch(p, FALSE)]
    /\ UNCHANGED <<CONFIG, sdData, input, day, hour, fileVars, tickVars,
                   pid, sd, isShuttingDown, signals, cleanups, exitAt, cache>>

\* the outcomes of `git push origin <branch>`: without a remote named origin
\* git fails with "'origin' does not appear to be a git repository"
PushOutcomes == IF git.hasOrigin THEN {"ok", "transient", "permanent"} ELSE {"permanent"}

\* performGitOperations: `git push origin <branch>`, run whether or not the
\* repository has a remote
GitPush(p) ==
    /\ pc[p] = "gitPush"
    /\ \E outcome \in PushOutcomes :
         /\ git' = [git EXCEPT !.pushes = @ + 1,
                               !.failedAt = IF outcome = "ok" THEN "none" ELSE "push",
                               !.error = IF outcome = "ok" THEN "none" ELSE outcome]
         /\ pc' = [pc EXCEPT ![p] = IF outcome = "ok" THEN "update"
                                    ELSE GitCatch(p, outcome = "transient")]
         /\ commitsToday' = IF outcome = "ok" THEN commitsToday + 1 ELSE commitsToday
    /\ UNCHANGED <<CONFIG, sdData, input, day, hour, lock, trackerFile, targetLines, tickVars,
                   pid, sd, isShuttingDown, signals, cleanups, exitAt, cache>>

\* a retry that does not wait
RetryNoSleep(p) ==
    /\ pc[p] = "retrySleep"
    /\ attempt' = [attempt EXCEPT ![p] = @ + 1]
    /\ pc' = [pc EXCEPT ![p] = "git"]
    /\ UNCHANGED <<CONFIG, ioVars, day, hour, fileVars,
                   intended, remaining, planned, i, execCalls, report, nextRun,
                   pid, sd, isShuttingDown, signals, cleanups, exitAt, cache>>

\* performGitOperations: the sleep of RETRY_DELAY, then the next attempt
RetrySleep(p) ==
    /\ pc[p] = "retrySleep"
    /\ git' = [git EXCEPT !.sleeps = @ + 1]
    /\ attempt' = [attempt EXCEPT ![p] = @ + 1]
    /\ pc' = [pc EXCEPT ![p] = "git"]
    /\ UNCHANGED <<CONFIG, sdData, input, day, hour, fileVars,
                   intended, remaining, planned, i, execCalls, report, nextRun,
                   pid, sd, isShuttingDown, signals, cleanups, exitAt, cache>>

\* an increment by two
UpdateCommitCountTwice(p) ==
    /\ pc[p] = "update"
    /\ cache' = [cache EXCEPT ![p].commitCount = @ + 2]
    /\ pc' = [pc EXCEPT ![p] = "save"]
    /\ UNCHANGED <<CONFIG, ioVars, day, hour, fileVars, tickVars,
                   pid, sd, isShuttingDown, signals, cleanups, exitAt>>

\* an updateCommitCount that does not wait for its save
UpdateCommitCountNoAwait(p) ==
    /\ pc[p] = "update"
    /\ cache' = [cache EXCEPT ![p].commitCount = @ + 1]
    /\ pc' = [pc EXCEPT ![p] = "delay"]
    /\ UNCHANGED <<CONFIG, ioVars, day, hour, fileVars, tickVars,
                   pid, sd, isShuttingDown, signals, cleanups, exitAt>>

\* updateCommitCount up to its await: the in-memory increment
UpdateCommitCount(p) ==
    /\ pc[p] = "update"
    /\ cache' = [cache EXCEPT ![p].commitCount = @ + 1]
    /\ pc' = [pc EXCEPT ![p] = "save"]
    /\ UNCHANGED <<CONFIG, ioVars, day, hour, fileVars, tickVars,
                   pid, sd, isShuttingDown, signals, cleanups, exitAt>>

\* a save whose error is logged and not rethrown
SaveCommitTrackerSwallows(p) ==
    /\ pc[p] = "save"
    /\ \E ok \in BOOLEAN :
         /\ trackerFile' = IF ok THEN Stringify(cache[p]) ELSE trackerFile
         /\ pc' = [pc EXCEPT ![p] = "delay"]
    /\ UNCHANGED <<CONFIG, ioVars, day, hour, lock, targetLines, commitsToday, tickVars,
                   pid, sd, isShuttingDown, signals, cleanups, exitAt, cache>>

\* updateCommitCount: saveCommitTracker, its write taken as one step; an error
\* is rethrown
SaveCommitTracker(p) ==
    /\ pc[p] = "save"
    /\ \E ok \in BOOLEAN :
         IF ok
         THEN /\ trackerFile' = Stringify(cache[p])
              /\ pc' = [pc EXCEPT ![p] = "delay"]
         ELSE /\ trackerFile' = trackerFile
              /\ pc' = [pc EXCEPT ![p] = "catchSave"]
    /\ UNCHANGED <<CONFIG, ioVars, day, hour, lock, targetLines, commitsToday, tickVars,
                   pid, sd, isShuttingDown, signals, cleanups, exitAt, cache>>

\* The same save step by step (SpecSave).  writeFile opens the file with the
\* flag 'w', which empties it, and writes the text in a later turn of the
\* event loop; the text is the cache as it was when writeFile was called.
SaveOpen(p) ==
    /\ pc[p] = "save"
    /\ \E ok \in BOOLEAN :
         IF ok
         THEN /\ trackerFile' = Unparsable
              /\ pc' = [pc EXCEPT ![p] = "saveWrite"]
         ELSE /\ trackerFile' = trackerFile
              /\ pc' = [pc EXCEPT ![p] = "catchSave"]
    /\ UNCHANGED <<CONFIG, ioVars, day, hour, lock, targetLines, commitsToday, tickVars,
                   pid, sd, isShuttingDown, signals, cleanups, exitAt, cache>>

SaveWrite(p) ==
    /\ pc[p] = "saveWrite"
    /\ \E ok \in BOOLEAN :
         IF ok
         THEN /\ trackerFile' = Stringify(cache[p])
              /\ pc' = [pc EXCEPT ![p] = "delay"]
         ELSE /\ trackerFile' = trackerFile
              /\ pc' = [pc EXCEPT ![p] = "catchSave"]
    /\ UNCHANGED <<CONFIG, ioVars, day, hour, lock, targetLines, commitsToday, tickVars,
                   pid, sd, isShuttingDown, signals, cleanups, exitAt, cache>>

\* gracefulShutdown's saveCommitTracker, step by step
ShutdownSaveOpen(p) ==
    /\ Alive(p)
    /\ sd[p] = "save"
    /\ \E ok \in BOOLEAN :
         IF ok
         THEN /\ sdData' = [sdData EXCEPT ![p] = Stringify(cache[p])]
              /\ trackerFile' = Unparsable
              /\ sd' = [sd EXCEPT ![p] = "saveWrite"]
         ELSE /\ UNCHANGED <<sdData, trackerFile>>
              /\ sd' = [sd EXCEPT ![p] = "exit"]
    /\ UNCHANGED <<CONFIG, git, input, day, hour, lock, targetLines, commitsToday, tickVars,
                   pid, pc, isShuttingDown, signals, cleanups, exitAt, cache>>

ShutdownSaveWrite(p) ==
    /\ Alive(p)
    /\ sd[p] = "saveWrite"
    /\ \E ok \in BOOLEAN :
         IF ok
         THEN /\ trackerFile' = sdData[p]
              /\ sd' = [sd EXCEPT ![p] = "remove"]
         ELSE /\ trackerFile' = trackerFile
              /\ sd' = [sd EXCEPT ![p] = "exit"]
    /\ UNCHANGED <<CONFIG, ioVars, day, hour, lock, targetLines, commitsToday, tickVars,
                   pid, pc, isShuttingDown, signals, cleanups, exitAt, cache>>

\* runBot: the delay after a commit, then the next iteration or the end of the burst
Delay(p) ==
    /\ pc[p] = "delay"
    /\ i' = [i EXCEPT ![p] = @ + 1]
    /\ IF i[p] + 1 < planned[p]
       THEN /\ pc' = [pc EXCEPT ![p] = "modify"]
            /\ UNCHANGED <<report, cache>>
       ELSE /\ pc' = [pc EXCEPT ![p] = "tickReturn"]
            /\ report' = [report EXCEPT ![p] = BurstReport(intended[p], planned[p], cache[p])]
            /\ cache' = [cache EXCEPT ![p] = BurstCache(intended[p], planned[p], @)]
    /\ UNCHANGED <<CONFIG, ioVars, day, hour, fileVars,
                   intended, remaining, planned, attempt, execCalls, nextRun,
                   pid, sd, isShuttingDown, signals, cleanups, exitAt>>

\* a catch block that logs and returns to the scheduler
RunBotCatchReturns(p) ==
    /\ pc[p] \in {"catchQuota", "catchChdir", "catchExec", "catchSave"}
    /\ pc' = [pc EXCEPT ![p] = "tickReturn"]
    /\ UNCHANGED <<CONFIG, ioVars, day, hour, fileVars, tickVars,
                   pid, sd, isShuttingDown, signals, cleanups, exitAt, cache>>

\* runBot's catch block: logError, then process.exit(1)
RunBotCatch(p) ==
    /\ pc[p] \in {"catchQuota", "catchChdir", "catchExec", "catchSave"}
    /\ Exit(p, pc[p])
    /\ UNCHANGED <<CONFIG, ioVars, day, hour, fileVars,
                   pid, sd, isShuttingDown, signals, cleanups, cache>>

\* a delay that looks at the day and the hour only
NextRunDelayWindowOnly(currentHour) ==
    IF ~isWeekend /\ isWorkingHours(currentHour) THEN LongInterval ELSE ShortInterval

\* the delay scheduleNextRun passes to setTimeout
NextRunDelay(currentHour) ==
    IF CONFIG.ENABLE_WEEKENDS \/ (~isWeekend /\ isWorkingHours(currentHour))
    THEN LongInterval ELSE ShortInterval

\* scheduleNextRun after runBot has returned: arm the timer
ArmTimer(p) ==
    /\ pc[p] = "tickReturn"
    /\ \E currentHour \in LocaleHours(hour) :
         nextRun' = [nextRun EXCEPT ![p] = NextRunDelay(currentHour)]
    /\ ResetTick(p)
    /\ pc' = [pc EXCEPT ![p] = "sleeping"]
    /\ UNCHANGED <<CONFIG, ioVars, day, hour, fileVars,
                   pid, sd, isShuttingDown, signals, cleanups, exitAt, cache>>

\* the timer fires: scheduleNextRun is called again
TimerFires(p) ==
    /\ pc[p] = "sleeping"
    /\ pc' = [pc EXCEPT ![p] = "schedule"]
    /\ UNCHANGED <<CONFIG, ioVars, day, hour, fileVars, tickVars,
                   pid, sd, isShuttingDown, signals, cleanups, exitAt, cache>>

\* --------------------------------------------------------------- environment
\* time passes: a later hour of the day, or the first hour of the next day
Tock ==
    /\ \/ /\ \E h \in ClockHours : h > hour /\ hour' = h
          /\ UNCHANGED <<day, commitsToday>>
       \/ /\ day < MaxDay
          /\ day' = day + 1
          /\ hour' = 0
          /\ commitsToday' = 0
    /\ UNCHANGED <<CONFIG, ioVars, lock, trackerFile, targetLines, procVars, tickVars>>

\* the process is killed (SIGKILL, power loss): no handler runs
Crash(p) ==
    /\ Alive(p)
    /\ Exit(p, "killed")
    /\ UNCHANGED <<CONFIG, ioVars, day, hour, fileVars,
                   pid, sd, isShuttingDown, signals, cleanups, cache>>

\* the instance is started again, as a new process with a fresh identifier
Restart(p) ==
    /\ pc[p] = "exited"
    /\ pid[p] + Cardinality(Procs) <= p + Cardinality(Procs) * (MaxRuns - 1)
    /\ pid' = [pid EXCEPT ![p] = @ + Cardinality(Procs)]
    /\ pc' = [pc EXCEPT ![p] = "checkLock"]
    /\ sd' = [sd EXCEPT ![p] = "idle"]
    /\ isShuttingDown' = [isShuttingDown EXCEPT ![p] = FALSE]
    /\ signals' = [signals EXCEPT ![p] = 0]
    /\ cleanups' = [cleanups EXCEPT ![p] = 0]
    /\ exitAt' = [exitAt EXCEPT ![p] = "none"]
    /\ cache' = [cache EXCEPT ![p] = DefaultCache]
    /\ ResetTick(p)
    /\ nextRun' = [nextRun EXCEPT ![p] = 0]
    /\ UNCHANGED <<CONFIG, ioVars, day, hour, fileVars>>

\* ------------------------------------------------------------ specifications
InitProcess ==
    /\ sd = [p \in Procs |-> "idle"]
    /\ isShuttingDown = [p \in Procs |-> FALSE]
    /\ signals = [p \in Procs |-> 0]
    /\ cleanups = [p \in Procs |-> 0]
    /\ exitAt = [p \in Procs |-> "none"]
    /\ cache = [p \in Procs |-> DefaultCache]
    /\ intended = [p \in Procs |-> 0]
    /\ remaining = [p \in Procs |-> 0]
    /\ planned = [p \in Procs |-> 0]
    /\ i = [p \in Procs |-> 0]
    /\ attempt = [p \in Procs |-> 0]
    /\ execCalls = [p \in Procs |-> 0]
    /\ report = [p \in Procs |-> "none"]
    /\ nextRun = [p \in Procs |-> 0]
    /\ sdData = [p \in Procs |-> Absent]

\* One instance (process 1) from its start.  Process 2 stands for another
\* instance: none, one that is running and holds the lock, or one that died
\* and left its marker behind.
Init ==
    /\ CONFIG \in Configs
    /\ day = 0
    /\ hour = 0
    /\ pid = [p \in Procs |-> p]
    /\ \E other \in {"none", "running", "dead"} :
         /\ pc = [p \in Procs |-> IF p = 1 THEN "checkLock"
                                  ELSE IF p = 2 /\ other = "running" THEN "foreign"
                                  ELSE IF p = 2 /\ other = "dead" THEN "exited"
                                  ELSE "absent"]
         /\ lock = IF other = "none" THEN NoLock ELSE pid[2]
    /\ trackerFile = Absent
    /\ targetLines = 0
    /\ commitsToday = 0
    /\ git = Repository(TRUE, TRUE)
    /\ input = CommandLine(CONFIG)
    /\ InitProcess

StartUp(p) ==
    \/ CheckLockRead(p)
    \/ CheckLockConflict(p)
    \/ CheckLockUnlink(p)
    \/ CreateLock(p)
    \/ CreateLockFail(p)
    \/ InitStat(p)
    \/ InitWrite(p)
    \/ InitRead(p)

Shutdown(p) ==
    \/ Signal(p)
    \/ ShutdownSave(p)
    \/ ShutdownRemoveLock(p)
    \/ ShutdownExit(p)

Tick(p) ==
    \/ ScheduleNextRun(p)
    \/ HealthCheck(p)
    \/ HealthCheckFail(p)
    \/ PlanBurst(p)
    \/ ModifyFile(p)
    \/ GitAttempt(p)
    \/ UpdateCommitCount(p)
    \/ SaveCommitTracker(p)
    \/ Delay(p)
    \/ RunBotCatch(p)
    \/ ArmTimer(p)
    \/ TimerFires(p)

Next ==
    \/ StartUp(1)
    \/ Tick(1)
    \/ Shutdown(1)
    \/ Restart(1)
    \/ Tock

Spec == Init /\ [][Next]_vars

\* Two instances (processes 1 and 2) started on the same lock file, up to the
\* point where each enters the scheduler loop.  Process 3 is dead and may have
\* left its marker behind.
Racers == {1, 2}

InitRace ==
    /\ CONFIG \in Configs
    /\ day = 0
    /\ hour = 0
    /\ pid = [p \in Procs |-> p]
    /\ pc = [p \in Procs |-> IF p \in Racers THEN "checkLock" ELSE "exited"]
    /\ lock \in {NoLock, pid[3]}
    /\ trackerFile = Absent
    /\ targetLines = 0
    /\ commitsToday = 0
    /\ git = Repository(TRUE, TRUE)
    /\ input = CommandLine(CONFIG)
    /\ InitProcess

NextRace ==
    \E p \in Racers :
        \/ StartUp(p)
        \/ Shutdown(p)

SpecRace == InitRace /\ [][NextRace]_vars

\* One tick of one instance that holds the lock, inside the working window,
\* with the Executor taken command by command.  The repository has a remote
\* named origin or none; its log file is part of the work tree or not.
ExecConfigs ==
    { c \in { MakeConfig(mn, mx, dl, we, ra) :
                mn \in 1..MaxCommitsArg, mx \in 1..MaxCommitsArg,
                dl \in 1..MaxDailyLimitArg, we \in BOOLEAN, ra \in 1..MaxExecRetry } :
        ConfigAccepted(c) }

InitExec ==
    /\ CONFIG \in ExecConfigs
    /\ day = 0
    /\ hour = DefaultScheduleStart
    /\ pid = [p \in Procs |-> p]
    /\ pc = [p \in Procs |-> IF p = 1 THEN "health" ELSE "absent"]
    /\ lock = pid[1]
    /\ trackerFile = Stringify(DefaultCache)
    /\ targetLines = 0
    /\ commitsToday = 0
    /\ \E hasOrigin \in BOOLEAN, logTracked \in BOOLEAN :
         git = Repository(hasOrigin, logTracked)
    /\ input = CommandLine(CONFIG)
    /\ InitProcess

NextExec ==
    \/ HealthCheck(1)
    \/ HealthCheckFail(1)
    \/ PlanBurst(1)
    \/ ModifyFile(1)
    \/ GitAdd(1)
    \/ GitCommit(1)
    \/ GitPush(1)
    \/ RetrySleep(1)
    \/ UpdateCommitCount(1)
    \/ SaveCommitTracker(1)
    \/ Delay(1)
    \/ RunBotCatch(1)
    \/ ArmTimer(1)

SpecExec == InitExec /\ [][NextExec]_vars

\* One instance that holds the lock, from initCommitTracker on, started on a
\* tracker file left by earlier runs or by anything else: none, a record of
\* any count and date, text that does not parse, or the text "null".
StoredFiles ==
    {Absent, Unparsable, NullFile}
      \cup { Record(c, d) : c \in 0..MaxStoredCount, d \in Days }

InitLoad ==
    /\ CONFIG \in Configs
    /\ day \in Days
    /\ hour = DefaultScheduleStart
    /\ pid = [p \in Procs |-> p]
    /\ pc = [p \in Procs |-> IF p = 1 THEN "initStat" ELSE "absent"]
    /\ lock = pid[1]
    /\ trackerFile \in StoredFiles
    /\ targetLines = 0
    /\ commitsToday = 0
    /\ git = Repository(TRUE, TRUE)
    /\ input = CommandLine(CONFIG)
    /\ InitProcess

NextLoad ==
    \/ InitStat(1)
    \/ InitWrite(1)
    \/ InitRead(1)
    \/ Tick(1)
    \/ Tock

SpecLoad == InitLoad /\ [][NextLoad]_vars

\* One instance that holds the lock and has initialised its tracker, on one
\* day inside the working window, with every write of the tracker file taken
\* step by step and signals arriving at any time.
InitSave ==
    /\ CONFIG \in Configs
    /\ day = 0
    /\ hour = DefaultScheduleStart
    /\ pid = [p \in Procs |-> p]
    /\ pc = [p \in Procs |-> IF p = 1 THEN "schedule" ELSE "absent"]
    /\ lock = pid[1]
    /\ trackerFile = Stringify(DefaultCache)
    /\ targetLines = 0
    /\ commitsToday = 0
    /\ git = Repository(TRUE, TRUE)
    /\ input = CommandLine(CONFIG)
    /\ InitProcess

NextSave ==
    \/ ScheduleNextRun(1)
    \/ HealthCheck(1)
    \/ HealthCheckFail(1)
    \/ PlanBurst(1)
    \/ ModifyFile(1)
    \/ GitAttempt(1)
    \/ UpdateCommitCount(1)
    \/ SaveOpen(1)
    \/ SaveWrite(1)
    \/ Delay(1)
    \/ RunBotCatch(1)
    \/ ArmTimer(1)
    \/ TimerFires(1)
    \/ Signal(1)
    \/ ShutdownSaveOpen(1)
    \/ ShutdownSaveWrite(1)
    \/ ShutdownRemoveLock(1)
    \/ ShutdownExit(1)

SpecSave == InitSave /\ [][NextSave]_vars

\* One instance from the moment its module is loaded, for every command line
\* and environment of the bounded sets below, up to the first lock operation.
CommandLines ==
    { [ minCommits |-> mn, maxCommits |-> mx, dailyLimit |-> dl,
        commitDelayMin |-> dmin, commitDelayMax |-> dmax,
        scheduleStart |-> ss, scheduleEnd |-> se,
        retryAttempts |-> ra, retryDelay |-> rd, enableWeekends |-> we ] :
        mn \in {NotGiven, NotANumber, Typed(0 - 1), Typed(0), Typed(1), Typed(2)},
        mx \in {NotGiven, Typed(1), Typed(2)},
        dl \in {NotGiven, Typed(0), Typed(1), Typed(2)},
        dmin \in {NotGiven, Typed(0 - 1), Typed(0)},
        dmax \in {NotGiven, Typed(1)},
        ss \in {NotGiven, Typed(0), Typed(DefaultScheduleEnd)},
        se \in {NotGiven, Typed(24)},
        ra \in {NotGiven, Typed(0 - 1), Typed(0), Typed(1)},
        rd \in {NotGiven, Typed(0 - 1), Typed(0)},
        we \in BOOLEAN }

Environments ==
    {NoOptions, [NoOptions EXCEPT !.minCommits = Typed(2)],
     [NoOptions EXCEPT !.scheduleStart = Typed(8)]}

InitConfig ==
    /\ input \in { [argv |-> a, env |-> e,
                    answers |-> NoOptions @@ [enableWeekends |-> FALSE], asked |-> FALSE] :
                     a \in CommandLines, e \in Environments }
    /\ CONFIG = BuildConfig(ParsedArgs(input.argv, input.env), input.argv.enableWeekends)
    /\ day = 0
    /\ hour = 0
    /\ pid = [p \in Procs |-> p]
    /\ pc = [p \in Procs |-> IF p = 1 THEN "load" ELSE "absent"]
    /\ lock = NoLock
    /\ trackerFile = Absent
    /\ targetLines = 0
    /\ commitsToday = 0
    /\ git = Repository(TRUE, TRUE)
    /\ InitProcess

NextConfig ==
    \/ LoadModule(1)
    \/ Interactive(1)

SpecConfig == InitConfig /\ [][NextConfig]_vars


\* the count a tracker file holds for the current calendar day
StoredToday(f) == IF f.kind = "record" /\ f.lastRunDate = day THEN f.commitCount ELSE 0

\* One instance from checkLock to the end of initCommitTracker, with signals
\* arriving at any time, started on a tracker file left by earlier runs whose
\* commits of the day are the ones that file counts.  Process 2 is as in Init.
InitBoot ==
    /\ CONFIG \in Configs
    /\ day \in Days
    /\ hour = DefaultScheduleStart
    /\ pid = [p \in Procs |-> p]
    /\ \E other \in {"none", "running", "dead"} :
         /\ pc = [p \in Procs |-> IF p = 1 THEN "checkLock"
                                  ELSE IF p = 2 /\ other = "running" THEN "foreign"
                                  ELSE IF p = 2 /\ other = "dead" THEN "exited"
                                  ELSE "absent"]
         /\ lock = IF other = "none" THEN NoLock ELSE pid[2]
    /\ trackerFile \in StoredFiles
    /\ targetLines = 0
    /\ commitsToday = StoredToday(trackerFile)
    /\ git = Repository(TRUE, TRUE)
    /\ input = CommandLine(CONFIG)
    /\ InitProcess

NextBoot ==
    \/ StartUp(1)
    \/ Shutdown(1)

SpecBoot == InitBoot /\ [][NextBoot]_vars


\* One instance alone on its lock file, inside the working window, from its
\* start to its first tick, with the write of the marker taken step by step;
\* it may fail or be killed at any point and is then started again.
InitLock ==
    /\ CONFIG \in Configs
    /\ day = 0
    /\ hour = DefaultScheduleStart
    /\ pid = [p \in Procs |-> p]
    /\ pc = [p \in Procs |-> IF p = 1 THEN "checkLock" ELSE "absent"]
    /\ lock = NoLock
    /\ trackerFile = Absent
    /\ targetLines = 0
    /\ commitsToday = 0
    /\ git = Repository(TRUE, TRUE)
    /\ input = CommandLine(CONFIG)
    /\ InitProcess

NextLock ==
    \/ CheckLockRead(1)
    \/ CheckLockConflict(1)
    \/ CheckLockUnlink(1)
    \/ CreateLockOpen(1)
    \/ CreateLockWrite(1)
    \/ CreateLockFail(1)
    \/ InitStat(1)
    \/ InitWrite(1)
    \/ InitRead(1)
    \/ ScheduleNextRun(1)
    \/ HealthCheck(1)
    \/ HealthCheckFail(1)
    \/ PlanBurst(1)
    \/ ModifyFile(1)
    \/ RunBotCatch(1)
    \/ Crash(1)
    \/ Restart(1)

SpecLock == InitLock /\ [][NextLock]_vars


\* ------------------------------------------------------------------- claims
\* positions of the main coroutine after createLock has written the marker
OwnerPcs == {"initStat", "initWrite", "initRead", "schedule", "idle", "health", "healthFail",
             "chdir", "modify", "git", "update", "save", "delay", "tickReturn", "sleeping",
             "catchQuota", "catchChdir", "catchExec", "catchSave"}
\* positions inside the scheduler loop
SchedulerPcs == OwnerPcs \ {"initStat", "initWrite", "initRead"}
\* positions inside the commit loop of a tick
BurstPcs == {"modify", "git", "update", "save", "delay", "catchExec", "catchSave"}

\* C1: at most one live process is past createLock and in the scheduler loop
\* at any time, whatever the interleaving of the start-up steps.
C1_MutualExclusion ==
    Cardinality({p \in Procs : pc[p] \in SchedulerPcs}) <= 1

\* C2: on every calendar day the number of successful Executor calls is at most
\* DAILY_LIMIT, across date changes during a burst and across restarts.
C2_DailyQuota ==
    commitsToday <= CONFIG.DAILY_LIMIT

C4_ShutdownReleasesLock ==
    \A p \in Procs : exitAt[p] = "shutdown" => lock # pid[p]

\* C5: the cleanup sequence of gracefulShutdown is started at most once in a
\* process lifetime, however many signals arrive and whenever they do.
C5_ShutdownAtMostOnce ==
    \A p \in Procs : cleanups[p] <= 1

\* a second signal has arrived while the first shutdown is at an await
C5_Witness ==
    \E p \in Procs : Alive(p) /\ signals[p] >= 2 /\ cleanups[p] = 1 /\ sd[p] = "remove"

\* C6: from the moment checkLock has found a live owner, the starting process
\* changes neither the lock marker nor the tracker file nor the target file,
\* and its exit has a non-zero status.
C6_ConflictNoWrites ==
    [][\A p \in Procs :
         pc[p] = "conflict" =>
           /\ lock' = lock
           /\ trackerFile' = trackerFile
           /\ targetLines' = targetLines
           /\ (pc'[p] = "exited" => ExitStatus(exitAt'[p]) # 0)]_vars

\* C7: checkLock takes the stale branch for a marker of a dead process and
\* that branch deletes the marker; the createLock that completes after it
\* leaves the marker holding the identifier of the starting process.
C7_StaleLockRecovery ==
    [][\A p \in Procs :
         /\ (pc[p] = "checkLock" /\ lock # NoLock /\ ~ProbeAlive(lock)
               /\ pc'[p] \notin {"checkLock", "exited"}
             => pc'[p] = "unlinkStale")
         /\ (pc[p] = "unlinkStale" /\ pc'[p] \notin {"unlinkStale", "exited"}
             => lock' = NoLock /\ pc'[p] = "createLock")
         /\ (pc[p] = "createLock" /\ pc'[p] = "initStat"
             => lock' = pid[p])]_vars

\* the marker of a dead process has been recovered and replaced
C7_Witness ==
    /\ pc[2] = "exited" /\ pid[1] = 1 /\ signals[1] = 0
    /\ pc[1] = "initStat" /\ lock = pid[1]

\* C8: the tracker file and the target file are written, and the lock marker
\* is deleted, only by a process that has completed checkLock and createLock
\* (the removal of a stale marker inside checkLock apart).
C8_WritesOnlyByOwner ==
    [][\/ pc[1] \in OwnerPcs
       \/ /\ trackerFile' = trackerFile
          /\ targetLines' = targetLines
          /\ \/ lock' # NoLock
             \/ lock = NoLock
             \/ pc[1] = "unlinkStale" /\ pc'[1] = "createLock"]_vars

\* C9: during a burst the Executor calls made so far are at most planned,
\* planned is min(intended, remaining), intended lies in MIN_COMMITS..MAX_COMMITS
\* and remaining is the quota that was left when the burst was planned.
C9_BurstCap ==
    \A p \in Procs :
      pc[p] \in BurstPcs =>
        /\ execCalls[p] <= planned[p]
        /\ planned[p] = Min(intended[p], remaining[p])
        /\ intended[p] \in CONFIG.MIN_COMMITS..CONFIG.MAX_COMMITS
        /\ remaining[p] = CONFIG.DAILY_LIMIT
                            - (cache[p].commitCount
                               - (i[p] + IF pc[p] \in {"save", "delay", "catchSave"} THEN 1 ELSE 0))

\* the quota caps the burst: two intended, one left, one made
C9_Witness ==
    \E p \in Procs :
      pc[p] = "delay" /\ intended[p] = 2 /\ remaining[p] = 1 /\ planned[p] = 1
        /\ execCalls[p] = 1

\* the hour lies outside [SCHEDULE_START, SCHEDULE_END)
OffHours == ~(hour >= CONFIG.SCHEDULE_START /\ hour < CONFIG.SCHEDULE_END)
\* the main coroutine takes the skip decision of a tick whose health check passed
TickDecides(p) == pc[p] = "health" /\ pc'[p] \in {"chdir", "tickReturn"}
\* the tick is skipped: no Executor call, tracker and target file as they were
TickSkipped(p) ==
    /\ pc'[p] = "tickReturn"
    /\ execCalls'[p] = 0
    /\ UNCHANGED <<cache, trackerFile, targetLines, commitsToday>>

\* C10 as claimed: a tick outside the working window is skipped and reports
\* off-hours.
C10_OffHoursSkip ==
    [][\A p \in Procs :
         TickDecides(p) /\ OffHours => TickSkipped(p) /\ report'[p] = "off-hours"]_vars

\* C10 as the code has it: a tick outside the working window is skipped; it
\* reports off-hours unless weekends are disabled and the day is a Saturday or
\* a Sunday, when the earlier weekend check reports weekend.
C10_OffHoursSkipAfterWeekend ==
    [][\A p \in Procs :
         TickDecides(p) /\ OffHours =>
           /\ TickSkipped(p)
           /\ report'[p] = IF ~CONFIG.ENABLE_WEEKENDS /\ isWeekendDay
                           THEN "weekend" ELSE "off-hours"]_vars

\* a tick in the first hour after the window has reported off-hours
C10_Witness ==
    \E p \in Procs :
      pc[p] = "tickReturn" /\ report[p] = "off-hours" /\ hour = CONFIG.SCHEDULE_END

C12_RetryScenario ==
    [][\A p \in Procs :
         /\ pc[p] = "gitPush" /\ attempt[p] = 3
         /\ git'.pushes = 3 /\ git'.failedAt = "none"
         => /\ pc'[p] = "update"
            /\ git'.sleeps = 2
            /\ attempt'[p] = 3
            /\ git'.adds = 3 /\ git'.commitRuns = 3
            /\ targetLines' = execCalls'[p]]_vars

\* the third push of the first Executor call has succeeded
C12_Witness ==
    \E p \in Procs :
      pc[p] = "update" /\ attempt[p] = 3 /\ git.pushes = 3 /\ git.sleeps = 2
        /\ execCalls[p] = 1 /\ targetLines = 1

\* C13: in a repository without a remote named origin no push is run, and no
\* Executor call fails at the publish step.
C13_OfflinePublishSkipped ==
    ~git.hasOrigin => git.pushes = 0 /\ git.failedAt # "push"

\* the main coroutine computes remainingCommits (line 428)
ComputesRemaining(p) == pc[p] = "chdir" /\ pc'[p] \in {"modify", "tickReturn"}
\* the main coroutine takes the quota check of shouldCommitToday (line 421)
ChecksQuota(p) ==
    pc[p] = "health" /\ pc'[p] \in {"chdir", "tickReturn"} /\ report'[p] \in {"quota", "none"}

\* C16: the remaining quota a tick computes is never negative, whatever record
\* was loaded; and getDailyCommitCount is idempotent for a given date: a
\* second call returns the same count and leaves the cache as the first did.
C16_RemainingQuota ==
    [][\A p \in Procs :
         /\ (Alive(p) /\ cache[p] # JsNull
               => /\ RolledCache(RolledCache(cache[p])) = RolledCache(cache[p])
                  /\ getDailyCommitCount(RolledCache(cache[p])) = getDailyCommitCount(cache[p]))
         /\ (ComputesRemaining(p)
               => /\ remaining'[p] >= 0
                  /\ remaining'[p] = CONFIG.DAILY_LIMIT - getDailyCommitCount(cache[p])
                  /\ cache'[p] = RolledCache(cache[p]))]_vars

\* a tick has computed its remaining quota after a record with a count above
\* the daily limit was loaded
C16_Witness ==
    \E p \in Procs :
      /\ pc[p] = "modify" /\ i[p] = 0 /\ remaining[p] >= 0
      /\ trackerFile.kind = "record" /\ trackerFile.commitCount > CONFIG.DAILY_LIMIT

\* C17: a quota computation that finds lastRunDate on another calendar date
\* than today sets commitCount to 0 and lastRunDate to today; the remaining
\* quota it computes is then DAILY_LIMIT.
C17_DateRollover ==
    [][\A p \in Procs :
         /\ (ChecksQuota(p) /\ cache[p].lastRunDate # day
               => cache'[p] = [commitCount |-> 0, lastRunDate |-> day]
                    /\ report'[p] = "none")
         /\ (ComputesRemaining(p) /\ cache[p].lastRunDate # day
               => cache'[p] = [commitCount |-> 0, lastRunDate |-> day]
                    /\ remaining'[p] = CONFIG.DAILY_LIMIT)]_vars

\* the full quota is available on the day after the limit was reached
C17_Witness ==
    \E p \in Procs :
      /\ pc[p] = "modify" /\ i[p] = 0 /\ remaining[p] = CONFIG.DAILY_LIMIT
      /\ trackerFile = Record(CONFIG.DAILY_LIMIT, day - 1)
      /\ cache[p] = [commitCount |-> 0, lastRunDate |-> day]

\* C18: initCommitTracker, finding a file whose content is no tracker record,
\* leaves the default record in the cache and in the file; and no tick ends
\* the process on the tracker it loaded.
C18_LoadNeverHalts ==
    [][\A p \in Procs :
         /\ (pc[p] = "initRead" /\ pc'[p] = "schedule" /\ trackerFile.kind # "record"
               => cache'[p] = DefaultCache /\ trackerFile' = Stringify(DefaultCache))
         /\ pc'[p] # "catchQuota"]_vars

PersistedCount == IF trackerFile.kind = "record" THEN trackerFile.commitCount ELSE 0

\* C14: with no shutdown under way, each completed updateCommitCount leaves
\* the file holding the cache, and the cache counting the successful commits
\* made since the count was 0.
C14_WriteThrough ==
    \A p \in Procs :
      pc[p] = "delay" /\ ~isShuttingDown[p] =>
        /\ trackerFile = Stringify(cache[p])
        /\ cache[p].commitCount = commitsToday

\* the second updateCommitCount in a row has completed
C14_Witness ==
    \E p \in Procs :
      /\ pc[p] = "delay" /\ ~isShuttingDown[p] /\ i[p] = 1
      /\ cache[p].commitCount = 2 /\ trackerFile = Record(2, day)

\* C19: the tracker file holds a complete record whenever the process has
\* ended, whatever save was in progress at its exit.
C19_AllOrNothing ==
    \A p \in Procs : pc[p] = "exited" => trackerFile.kind = "record"

\* C20: when a process that was shutting down has ended, the persisted count
\* is at most one below the number of commits it completed.
C20_LostAtMostOne ==
    \A p \in Procs :
      pc[p] = "exited" /\ isShuttingDown[p] => commitsToday - PersistedCount <= 1

\* the value the user supplied for an option: the interactive answer, else the
\* command line, else the environment, else the documented default
Supplied(o) ==
    IF input.asked /\ input.answers[o].kind = "num" THEN input.answers[o].n
    ELSE IF input.argv[o].kind = "num" THEN input.argv[o].n
    ELSE IF input.env[o].kind = "num" THEN input.env[o].n
    ELSE Defaults[o]

Defective ==
    \/ Supplied("minCommits") < 1
    \/ Supplied("maxCommits") < Supplied("minCommits")
    \/ Supplied("dailyLimit") < Supplied("minCommits")
    \/ Supplied("dailyLimit") < Supplied("maxCommits")
    \/ Supplied("scheduleStart") < 0 \/ Supplied("scheduleStart") > 23
    \/ Supplied("scheduleEnd") < 0 \/ Supplied("scheduleEnd") > 23
    \/ Supplied("scheduleStart") >= Supplied("scheduleEnd")
    \/ Supplied("commitDelayMin") < 0
    \/ Supplied("commitDelayMax") < Supplied("commitDelayMin")
    \/ Supplied("retryAttempts") < 1
    \/ Supplied("retryDelay") < 0

\* C21: a process whose supplied configuration has one of the listed defects
\* never gets to its first lock operation, and when it has ended its exit
\* status is not zero.
C21_DefectiveConfigRejected ==
    \A p \in Procs :
      Defective =>
        /\ pc[p] # "checkLock"
        /\ pc[p] = "exited" => ExitStatus(exitAt[p]) # 0

\* C22: removeLock called while the lock file does not exist hands no error
\* to gracefulShutdown, leaves the file absent and changes nothing but the
\* position of the shutdown.
C22_ReleaseIdempotent ==
    [][\A p \in Procs :
         sd[p] = "remove" /\ sd'[p] = "exit" /\ lock = NoLock =>
           /\ removeLock(lock).thrown = "none"
           /\ lock' = NoLock
           /\ UNCHANGED <<CONFIG, day, hour, trackerFile, targetLines, commitsToday,
                          pid, pc, isShuttingDown, signals, cleanups, exitAt, cache,
                          tickVars, ioVars>>]_vars

\* a signal before the first lock operation, with no marker ever written: the
\* shutdown has saved the tracker and has run removeLock on a missing file
C22_Witness ==
    /\ pc[2] = "absent" /\ pc[1] = "checkLock"
    /\ sd[1] = "exit" /\ trackerFile.kind = "record"
    /\ lock = NoLock

\* positions inside performGitOperations
GitPcs == {"git", "gitCommit", "gitPush", "retrySleep"}

\* C23: in every step of an Executor call the attempt number stays within
\* RETRY_ATTEMPTS and the sleeps within RETRY_ATTEMPTS - 1; a sleep happens
\* only after a transient failure and is followed by the next attempt, and a
\* further attempt only after a sleep; a failure that is not transient leaves
\* the call at once, with no further attempt or sleep; and no step of the
\* retry loop touches the target file.
C23_RetryPolicy ==
    [][\A p \in Procs :
         /\ attempt'[p] <= CONFIG.RETRY_ATTEMPTS
         /\ pc'[p] \in GitPcs => git'.sleeps <= CONFIG.RETRY_ATTEMPTS - 1
         /\ pc[p] \in GitPcs /\ git'.sleeps > git.sleeps =>
              /\ pc[p] = "retrySleep" /\ git.error = "transient"
              /\ attempt'[p] = attempt[p] + 1
         /\ pc[p] \in GitPcs /\ attempt'[p] # attempt[p] =>
              /\ attempt'[p] = attempt[p] + 1
              /\ git'.sleeps = git.sleeps + 1
         /\ pc[p] \in GitPcs /\ pc'[p] # pc[p] /\ git'.error = "permanent" =>
              /\ pc'[p] = "catchExec"
              /\ attempt'[p] = attempt[p]
              /\ ~(git'.sleeps > git.sleeps)
         /\ pc[p] \in GitPcs => targetLines' = targetLines]_vars

\* a call whose first attempt failed on a transient error, slept once, and
\* whose second attempt ended on an error that is not transient
C23_Witness ==
    /\ pc[1] = "catchExec" /\ git.error = "permanent"
    /\ attempt[1] = 2 /\ git.sleeps = 1 /\ git.adds = 2
    /\ execCalls[1] = 1 /\ targetLines = 1
    /\ CONFIG.RETRY_ATTEMPTS = 3

\* C24: a tick whose health check failed takes no skip decision; a tick whose
\* health check passed reports the first blocking check in the order weekend,
\* off-hours, quota (so a Saturday or Sunday tick with weekends disabled
\* reports weekend whatever the hour and the count), and a tick that reports
\* any of them returns with no Executor call and the tracker file, the target
\* file and the commits as they were.
C24_CheckOrder ==
    [][\A p \in Procs :
         /\ pc[p] = "health" /\ pc'[p] = "healthFail" =>
              UNCHANGED <<report, cache, trackerFile, targetLines, commitsToday>>
         /\ TickDecides(p) =>
              /\ report'[p] =
                   IF ~CONFIG.ENABLE_WEEKENDS /\ isWeekendDay THEN "weekend"
                   ELSE IF OffHours THEN "off-hours"
                   ELSE IF getDailyCommitCount(cache[p]) >= CONFIG.DAILY_LIMIT THEN "quota"
                   ELSE "none"
              /\ report'[p] # "none" =>
                   /\ pc'[p] = "tickReturn"
                   /\ execCalls'[p] = 0
                   /\ UNCHANGED <<trackerFile, targetLines, commitsToday>>
              /\ report'[p] = "none" => pc'[p] = "chdir"]_vars

\* a Saturday tick inside the working window, with the daily limit reached,
\* has been skipped as weekend
C24_Witness ==
    /\ pc[1] = "tickReturn" /\ report[1] = "weekend"
    /\ Weekday(day) = "Sat" /\ ~OffHours
    /\ cache[1] # JsNull
    /\ cache[1].lastRunDate = day /\ cache[1].commitCount >= CONFIG.DAILY_LIMIT
    /\ execCalls[1] = 0

\* the commit loop of a tick has run to its end and the tick reports
BurstEnds(p) == pc[p] = "delay" /\ pc'[p] = "tickReturn"

\* C25 as claimed: a tick that ran its burst to the end reports early exactly
\* when intended > planned, and all planned commits otherwise.
C25_EarlyIffCapped ==
    [][\A p \in Procs :
         BurstEnds(p) =>
           report'[p] = IF intended[p] > planned[p] THEN "early" ELSE "all"]_vars

\* C25 as the code has it: the tick reports early exactly when intended >
\* planned and the date has not changed since the tick read the daily count;
\* after a date change during the burst the count read at the end is that of
\* the new day, below the limit, and the tick reports all planned commits.
C25_EarlyIffCappedSameDay ==
    [][\A p \in Procs :
         BurstEnds(p) =>
           report'[p] = IF intended[p] > planned[p] /\ cache[p].lastRunDate = day
                        THEN "early" ELSE "all"]_vars

\* a burst capped by the quota ended after midnight and reported all planned
\* commits
C25_Witness ==
    /\ pc[1] = "tickReturn" /\ report[1] = "all"
    /\ intended[1] > planned[1] /\ execCalls[1] = planned[1] /\ planned[1] >= 1
    /\ day = 1

\* C26: when runBot has returned, the next step of scheduleNextRun arms the
\* timer, with the long interval when weekends are enabled or the day is no
\* rest day and the hour lies in the working window, and with the short
\* interval otherwise; a timer is armed at no other point, so there is never
\* more than one; and a process in the scheduler loop that is not shutting
\* down is either inside a tick or waiting for its timer.
C26_Rescheduling ==
    [][\A p \in Procs :
         /\ pc[p] = "tickReturn" /\ pc'[p] \notin {"tickReturn", "exited"} =>
              /\ pc'[p] = "sleeping"
              /\ nextRun'[p] = IF CONFIG.ENABLE_WEEKENDS \/ (~isWeekendDay /\ ~OffHours)
                               THEN LongInterval ELSE ShortInterval
         /\ nextRun'[p] # 0 /\ nextRun'[p] # nextRun[p] =>
              pc[p] = "tickReturn" /\ nextRun[p] = 0
         /\ pc[p] = "sleeping" => nextRun[p] # 0
         /\ pc[p] \in SchedulerPcs /\ ~isShuttingDown[p] => pc[p] # "idle"]_vars

\* with weekends enabled, a tick skipped outside the working window is
\* followed by a timer of one hour
C26_Witness ==
    /\ pc[1] = "sleeping" /\ nextRun[1] = LongInterval
    /\ CONFIG.ENABLE_WEEKENDS /\ OffHours

\* C27: the main coroutine starts an Executor call only when every earlier
\* call of the tick has finished and the save of its count has completed,
\* starts a tick only from scheduleNextRun with no timer pending, enters
\* scheduleNextRun again only when the timer has fired, and arms the timer
\* only after runBot has returned.
C27_OneAtATime ==
    [][\A p \in Procs :
         /\ pc[p] # "modify" /\ pc'[p] = "modify" => pc[p] \in {"chdir", "delay"}
         /\ pc[p] # "delay" /\ pc'[p] = "delay" => pc[p] \in {"save", "saveWrite"}
         /\ execCalls'[p] > execCalls[p] =>
              /\ execCalls'[p] = execCalls[p] + 1
              /\ execCalls[p] = i[p]
              /\ execCalls[p] > 0 => cache[p].commitCount >= execCalls[p]
         /\ pc[p] # "health" /\ pc'[p] = "health" => pc[p] = "schedule" /\ nextRun'[p] = 0
         /\ pc[p] = "sleeping" /\ pc'[p] \notin {"sleeping", "exited"} => pc'[p] = "schedule"
         /\ pc[p] # "sleeping" /\ pc'[p] = "sleeping" => pc[p] = "tickReturn"]_vars

\* the second Executor call of a tick is in progress, the first one saved
C27_Witness ==
    /\ pc[1] = "git" /\ execCalls[1] = 2 /\ i[1] = 1
    /\ trackerFile = Record(1, day) /\ cache[1].commitCount = 1

\* C28: a marker that names a live process is deleted by removeLock only in
\* the shutdown of that very process.
C28_ReleaseOnlyOwnMarker ==
    [][\A p \in Procs :
         sd[p] = "remove" /\ sd'[p] = "exit" /\ lock # NoLock /\ ProbeAlive(lock) =>
           lock = pid[p]]_vars

\* C29: when a process that made no commit has ended in its shutdown, the
\* tracker file counts for the current day at least the commits it counted
\* when the process started, at whatever point of the start-up the signal came.
C29_EarlyShutdownKeepsCount ==
    \A p \in Procs :
      pc[p] = "exited" /\ exitAt[p] = "shutdown" /\ targetLines = 0 =>
        StoredToday(trackerFile) >= commitsToday

\* C30: a process that runs checkLock while no other instance is alive never
\* takes the marker it finds for a live owner.
C30_LeftoverMarkerNeverBlocks ==
    [][\A p \in Procs :
         pc[p] = "checkLock" /\ (\A q \in Procs \ {p} : ~Alive(q)) =>
           pc'[p] # "conflict"]_vars

\* the range in which the validation accepts a value of an option
InRange(o, v) ==
    IF o \in {"scheduleStart", "scheduleEnd"} THEN v >= 0 /\ v <= 23
    ELSE IF o \in {"commitDelayMin", "commitDelayMax", "retryDelay"} THEN v >= 0
    ELSE IF o = "maxCommits" THEN v >= 1 /\ v <= 100
    ELSE v >= 1

\* the field of CONFIG an option sets
Effective(o) ==
    [ minCommits |-> CONFIG.MIN_COMMITS, maxCommits |-> CONFIG.MAX_COMMITS,
      dailyLimit |-> CONFIG.DAILY_LIMIT,
      commitDelayMin |-> CONFIG.COMMIT_DELAY_MIN, commitDelayMax |-> CONFIG.COMMIT_DELAY_MAX,
      scheduleStart |-> CONFIG.SCHEDULE_START, scheduleEnd |-> CONFIG.SCHEDULE_END,
      retryAttempts |-> CONFIG.RETRY_ATTEMPTS, retryDelay |-> CONFIG.RETRY_DELAY ][o]

\* C31: when a process started with command-line options has passed the
\* validation, every numeric option given on the command line inside its
\* accepted range is the value of its CONFIG field, the value 0 included.
C31_SuppliedValueEffective ==
    \A p \in Procs :
      pc[p] = "checkLock" /\ ~input.asked =>
        \A o \in NumericOptions :
          input.argv[o].kind = "num" /\ InRange(o, input.argv[o].n) =>
            Effective(o) = input.argv[o].n

====
